---- MODULE Spec2Model ----
(***************************************************************************)
(* Model of the pr-reviewer service: the lifecycle controller              *)
(* (internal/service/service.go) running concurrent requests against the   *)
(* PostgreSQL schema of the init migration through internal/repo/repo.go.  *)
(*                                                                         *)
(* Every repository call is one atomic step (one statement, or one         *)
(* transaction at its commit point, under READ COMMITTED).  The merge      *)
(* transaction is two steps, UPDATE+load and COMMIT: between them its      *)
(* write is invisible to other statements and the row is locked.           *)
(***************************************************************************)
EXTENDS Integers, Sequences, FiniteSets, TLC

\* Number of requests served in one behaviour.
MaxOps == 3
\* The number of requests served in the behaviours checked for termination.
MaxLive == 2

Users == {"u1", "u2", "u3", "u4"}
PRIds == {"pr-1", "pr-0"}
PRNames == {"Initial", "Retry"}
\* Requests in flight at the same time.
Procs == {1, 2}

VARIABLES
    teams,          \* table teams: set of team_name
    users,          \* table users: user_id -> [username, team_name, is_active]
    pull_requests,  \* table pull_requests: pull_request_id -> row
    pr_reviewers,   \* table pr_reviewers: set of [pr_id, slot, reviewer_id]
    writes,         \* per pull request, the committed writes to it and its slots
    clock,          \* the database's now()
    proc,           \* the requests: operation, position, locals, result
    ops             \* requests started so far

vars == <<teams, users, pull_requests, pr_reviewers, writes, clock, proc, ops>>

----------------------------------------------------------------------------
\* Error values.  A service.Error carries one of the api codes; every other
\* error is a raw storage error (fmt.Errorf around the pgx error).

NoErr == "nil"
NOTFOUND == "NOT_FOUND"
TEAMEXISTS == "TEAM_EXISTS"
PREXISTS == "PR_EXISTS"
PRMERGED == "PR_MERGED"
NOTASSIGNED == "NOT_ASSIGNED"
NOCANDIDATE == "NO_CANDIDATE"
ServiceCodes == {NOTFOUND, TEAMEXISTS, PREXISTS, PRMERGED, NOTASSIGNED, NOCANDIDATE}

\* statusFromCode without the case of api.PREXISTS.
StatusFromCodeNoPRExists(code) ==
    CASE code = TEAMEXISTS -> 400
      [] code = NOTFOUND -> 404
      [] code \in {PRMERGED, NOTASSIGNED, NOCANDIDATE} -> 409
      [] OTHER -> 500

\* statusFromCode: the HTTP status of an error code.
statusFromCode(code) ==
    CASE code = TEAMEXISTS -> 400
      [] code = NOTFOUND -> 404
      [] code \in {PREXISTS, PRMERGED, NOTASSIGNED, NOCANDIDATE} -> 409
      [] OTHER -> 500

\* writeServiceError: the status of a *service.Error is that of its code,
\* any other error is answered 500 INTERNAL_ERROR.
writeServiceError(err) ==
    IF err \in ServiceCodes THEN statusFromCode(err) ELSE 500

ErrNotFound == "not found"
ErrTeamExists == "team already exists"
ErrReviewerNotFound == "reviewer not found for this PR"
RawMergedTrigger == "update reviewer: ERROR 55000 Cannot modify reviewers for merged PR"
RawReviewerUnique == "update reviewer: ERROR 23505 pr_reviewers_pr_id_reviewer_id_key"
RawInsertPR == "insert pr: ERROR 23505 pull_requests_pkey"
RawInsertReviewer == "insert reviewer: ERROR 23505 pr_reviewers_pr_id_reviewer_id_key"
RawBeginTx == "begin tx: context canceled"
RawInsertTeam == "insert team: ERROR 23505 teams_pkey"
RawUpsertDeadlock == "upsert user: ERROR 40P01 deadlock detected"

OPEN == "OPEN"
MERGED == "MERGED"

----------------------------------------------------------------------------
\* api.PullRequest as loadPullRequestTx builds it.  The two *time.Time
\* fields are sequences of length 0 (nil) or 1.

NoPR ==
    [PullRequestId |-> "", PullRequestName |-> "", AuthorId |-> "",
     Status |-> "", AssignedReviewers |-> <<>>,
     CreatedAt |-> <<>>, MergedAt |-> <<>>]

\* SELECT reviewer_id FROM pr_reviewers WHERE pr_id = $1 ORDER BY slot
RECURSIVE OrderBySlot(_)
OrderBySlot(rows) ==
    IF rows = {} THEN <<>>
    ELSE LET first == CHOOSE r \in rows : \A q \in rows : r.slot <= q.slot
         IN  <<first.reviewer_id>> \o OrderBySlot(rows \ {first})

loadPullRequestTx(prs, rows, prID) ==
    [PullRequestId |-> prID,
     PullRequestName |-> prs[prID].pull_request_name,
     AuthorId |-> prs[prID].author_id,
     Status |-> prs[prID].status,
     AssignedReviewers |-> OrderBySlot({r \in rows : r.pr_id = prID}),
     CreatedAt |-> <<prs[prID].created_at>>,
     MergedAt |-> prs[prID].merged_at]

\* SELECT EXISTS(SELECT 1 FROM pull_requests WHERE pull_request_id = $1)
PullRequestExists(prs, prID) == prID \in DOMAIN prs

\* The SELECT without "AND is_active = true".
ListUsersInTeam(us, teamName) == {u \in DOMAIN us : us[u].team_name = teamName}

\* SELECT ... FROM users WHERE team_name = $1 AND is_active = true
ListActiveUsersInTeam(us, teamName) ==
    {u \in DOMAIN us : us[u].team_name = teamName /\ us[u].is_active}

\* The query has no ORDER BY: the rows come in any order.
RowOrders(S) ==
    {s \in [1..Cardinality(S) -> S] : \A i, j \in 1..Cardinality(S) : s[i] = s[j] => i = j}

Range(s) == {s[i] : i \in 1..Len(s)}

\* The sequence s without the elements of X, order kept.
RECURSIVE Without(_, _)
Without(s, X) ==
    IF s = <<>> THEN <<>>
    ELSE IF Head(s) \in X THEN Without(Tail(s), X)
         ELSE <<Head(s)>> \o Without(Tail(s), X)

\* api.PullRequestShort of a row of pull_requests
PullRequestShort(prs, prID) ==
    [PullRequestId |-> prID,
     PullRequestName |-> prs[prID].pull_request_name,
     AuthorId |-> prs[prID].author_id,
     Status |-> prs[prID].status]

\* The query with "AND pr.status = 'OPEN'".
ListUserOpenReviewPRs(prs, rows, userID) ==
    LET joined == {r \in rows : /\ r.reviewer_id = userID /\ r.pr_id \in DOMAIN prs
                                /\ prs[r.pr_id].status = OPEN}
        sorted == {o \in RowOrders(joined) :
                     \A i, j \in 1..Cardinality(joined) :
                        i < j => prs[o[i].pr_id].created_at <= prs[o[j].pr_id].created_at}
    IN  {[i \in 1..Cardinality(joined) |-> PullRequestShort(prs, o[i].pr_id)] : o \in sorted}

\* SELECT pr.* FROM pull_requests pr JOIN pr_reviewers r
\*   ON pr.pull_request_id = r.pr_id WHERE r.reviewer_id = $1
\*   ORDER BY pr.created_at
\* The possible results: rows of equal created_at come in any order.
ListUserReviewPRs(prs, rows, userID) ==
    LET joined == {r \in rows : r.reviewer_id = userID /\ r.pr_id \in DOMAIN prs}
        sorted == {o \in RowOrders(joined) :
                     \A i, j \in 1..Cardinality(joined) :
                        i < j => prs[o[i].pr_id].created_at <= prs[o[j].pr_id].created_at}
    IN  {[i \in 1..Cardinality(joined) |-> PullRequestShort(prs, o[i].pr_id)] : o \in sorted}

----------------------------------------------------------------------------
\* Assignment engine (service.go)

\* The possible results of pickRandom(rng, items, max).
\* pickRandom without "if len(items) <= max" and the cut at max.
pickRandomNoMax(items, max) == {items}

pickRandom(items, max) ==
    IF Len(items) <= max THEN {items}
    ELSE {[i \in 1..max |-> items[perm[i]]] : perm \in RowOrders(1..Len(items))}

\* The author not skipped.
KeepAuthor(list, authorId) == list

\* CreatePullRequest: the team's active users without the author.
CreateCandidates(list, authorId) == Without(list, {authorId})

\* ReassignReviewer: is oldUserID among pr.AssignedReviewers.
Assigned(pr, oldUserID) ==
    \E i \in 1..Len(pr.AssignedReviewers) : pr.AssignedReviewers[i] = oldUserID

\* The assigned check before the status check.
PrecheckAssignedFirst(pr, oldUserID) ==
    IF oldUserID \notin Range(pr.AssignedReviewers) THEN NOTASSIGNED
    ELSE IF pr.Status = MERGED THEN PRMERGED
    ELSE NoErr

\* The assigned check left out.
PrecheckStatusOnly(pr, oldUserID) == IF pr.Status = MERGED THEN PRMERGED ELSE NoErr

\* ReassignReviewer: the checks on the loaded PR, status first; the error
\* code returned, or NoErr to go on.
ReassignPrecheck(pr, oldUserID) ==
    IF pr.Status = MERGED THEN PRMERGED
    ELSE IF ~Assigned(pr, oldUserID) THEN NOTASSIGNED
    ELSE NoErr

\* The author left out of the exclude map.
ExcludeNoAuthor(pr, oldUserID) == {oldUserID} \cup Range(pr.AssignedReviewers)

\* ReassignReviewer: the exclude map.
Exclude(pr, oldUserID) == {pr.AuthorId, oldUserID} \cup Range(pr.AssignedReviewers)

\* Nobody skipped.
KeepExcluded(list, exclude) == list

\* ReassignReviewer: the active users of the team who are not excluded.
ReassignCandidates(list, exclude) == Without(list, exclude)

----------------------------------------------------------------------------
\* Storage layer (init migration and repo.go)

\* The trigger left out.
NoTrigger(prs, prID) == FALSE

\* Trigger trg_no_reviewers_change_after_merge, BEFORE INSERT OR UPDATE OR
\* DELETE on pr_reviewers FOR EACH ROW: TRUE when it raises 55000.
prevent_reviewers_change_on_merged(prs, prID) ==
    prID \in DOMAIN prs /\ prs[prID].status = MERGED

\* The UPDATE without "pr_id = $1": every PR's row of the old reviewer.
ReplaceReviewerAnyPR(prs, rows, prID, oldUserID, newUserID) ==
    LET match == {r \in rows : r.reviewer_id = oldUserID}
        updated == {[r EXCEPT !.reviewer_id = newUserID] : r \in match}
    IN  IF match = {} THEN [err |-> ErrReviewerNotFound, rows |-> rows]
        ELSE [err |-> NoErr, rows |-> (rows \ match) \cup updated]

\* The UPDATE without "reviewer_id = $2": the PR's first slot.
ReplaceReviewerFirstSlot(prs, rows, prID, oldUserID, newUserID) ==
    LET match == {r \in rows : r.pr_id = prID /\ r.slot = 1}
        updated == {[r EXCEPT !.reviewer_id = newUserID] : r \in match}
    IN  IF match = {} THEN [err |-> ErrReviewerNotFound, rows |-> rows]
        ELSE [err |-> NoErr, rows |-> (rows \ match) \cup updated]

\* The table without UNIQUE (pr_id, reviewer_id).
ReplaceReviewerNoUnique(prs, rows, prID, oldUserID, newUserID) ==
    LET match == {r \in rows : r.pr_id = prID /\ r.reviewer_id = oldUserID}
        updated == {[r EXCEPT !.reviewer_id = newUserID] : r \in match}
    IN  IF match = {} THEN [err |-> ErrReviewerNotFound, rows |-> rows]
        ELSE IF prevent_reviewers_change_on_merged(prs, prID)
             THEN [err |-> RawMergedTrigger, rows |-> rows]
        ELSE [err |-> NoErr, rows |-> (rows \ match) \cup updated]

\* A DELETE of the old row and an INSERT of the new reviewer into the next
\* slot instead of the UPDATE.
ReplaceReviewerAppend(prs, rows, prID, oldUserID, newUserID) ==
    LET match == {r \in rows : r.pr_id = prID /\ r.reviewer_id = oldUserID}
        taken == \E r \in rows \ match : r.pr_id = prID /\ r.reviewer_id = newUserID
        next == 1 + Cardinality({r \in rows : r.pr_id = prID})
    IN  IF match = {} THEN [err |-> ErrReviewerNotFound, rows |-> rows]
        ELSE IF prevent_reviewers_change_on_merged(prs, prID)
             THEN [err |-> RawMergedTrigger, rows |-> rows]
        ELSE IF taken THEN [err |-> RawReviewerUnique, rows |-> rows]
        ELSE [err |-> NoErr,
              rows |-> (rows \ match)
                         \cup {[pr_id |-> prID, slot |-> next, reviewer_id |-> newUserID]}]

\* UPDATE pr_reviewers SET reviewer_id = $3 WHERE pr_id = $1 AND reviewer_id = $2
\* together with the trigger and UNIQUE (pr_id, reviewer_id); the result is
\* the error ReplaceReviewer returns and the table afterwards.
ReplaceReviewer(prs, rows, prID, oldUserID, newUserID) ==
    LET match == {r \in rows : r.pr_id = prID /\ r.reviewer_id = oldUserID}
        updated == {[r EXCEPT !.reviewer_id = newUserID] : r \in match}
        taken == \E r \in rows \ match : r.pr_id = prID /\ r.reviewer_id = newUserID
    IN  IF match = {} THEN [err |-> ErrReviewerNotFound, rows |-> rows]
        ELSE IF prevent_reviewers_change_on_merged(prs, prID)
             THEN [err |-> RawMergedTrigger, rows |-> rows]
        ELSE IF taken THEN [err |-> RawReviewerUnique, rows |-> rows]
        ELSE [err |-> NoErr, rows |-> (rows \ match) \cup updated]

\* The UPDATE sets the status and leaves merged_at alone.
MarkMergedNoTimestamp(row, now) == [row EXCEPT !.status = MERGED]

\* The UPDATE also sets created_at = now().
MarkMergedTouchCreated(row, now) ==
    [row EXCEPT !.status = MERGED, !.created_at = now,
                !.merged_at = IF row.merged_at = <<>> THEN <<now>> ELSE row.merged_at]

\* merged_at = now(), without COALESCE.
MarkMergedOverwrite(row, now) == [row EXCEPT !.status = MERGED, !.merged_at = <<now>>]

\* UPDATE pull_requests SET status = 'MERGED',
\*        merged_at = COALESCE(merged_at, now()) WHERE pull_request_id = $1
MarkPullRequestMerged(row, now) ==
    [row EXCEPT !.status = MERGED,
                !.merged_at = IF row.merged_at = <<>> THEN <<now>> ELSE row.merged_at]

\* repo.ErrNotFound returned as it is.
NotFoundRaw(found) == IF found THEN NoErr ELSE ErrNotFound

\* GetUser, GetPullRequest and SetUserActive scan no row: repo.ErrNotFound,
\* which the service returns as NewError(api.NOTFOUND, ...).
NotFoundError(found) == IF found THEN NoErr ELSE NOTFOUND

\* The existence pre-check left out.
ExistsIgnored(exists) == NoErr

\* CreatePullRequest: if exists { return ..., NewError(api.PREXISTS, ...) }
ExistsError(exists) == IF exists THEN PREXISTS ELSE NoErr

\* The statement run on the pool: committed as soon as it is executed.
PoolExec(table, written) == written

\* tx.Exec: what other connections see of a table after a statement of an
\* open transaction wrote to it; the transaction's writes appear at Commit.
TxExec(table, written) == table

\* INSERT INTO pull_requests (...) VALUES ($1, $2, $3, 'OPEN'): the table
\* as the inserting transaction sees it.
InsertPullRequest(prs, prID, prName, authorID, now) ==
    [i \in DOMAIN prs \cup {prID} |->
        IF i = prID
        THEN [pull_request_name |-> prName, author_id |-> authorID, status |-> OPEN,
              created_at |-> now, merged_at |-> <<>>]
        ELSE prs[i]]

\* INSERT INTO pr_reviewers (pr_id, slot, reviewer_id), slot = i + 1
ReviewerRows(prID, reviewerIDs) ==
    {[pr_id |-> prID, slot |-> i, reviewer_id |-> reviewerIDs[i]] : i \in 1..Len(reviewerIDs)}

\* INSERT INTO users ... ON CONFLICT (user_id) DO UPDATE, for every member
\* The INSERT with ON CONFLICT (user_id) DO NOTHING: a user who exists stays
\* as stored.
UpsertMembersDoNothing(us, teamName, members) ==
    [u \in DOMAIN us \cup DOMAIN members |->
        IF u \in DOMAIN us THEN us[u]
        ELSE [username |-> members[u].username, team_name |-> teamName,
              is_active |-> members[u].is_active]]

UpsertMembers(us, teamName, members) ==
    [u \in DOMAIN us \cup DOMAIN members |->
        IF u \in DOMAIN members
        THEN [username |-> members[u].username, team_name |-> teamName,
              is_active |-> members[u].is_active]
        ELSE us[u]]

\* The members upserted before the team is looked up, and not rolled back.
CreateTeamUpsertFirst(ts, us, teamName, members) ==
    [err |-> IF teamName \in ts THEN ErrTeamExists ELSE NoErr,
     teams |-> ts \cup {teamName},
     users |-> UpsertMembers(us, teamName, members)]

\* Repo.CreateTeamWithMembers: the error it returns and the two tables
\* after its transaction.
CreateTeamWithMembers(ts, us, teamName, members) ==
    IF teamName \in ts
    THEN [err |-> ErrTeamExists, teams |-> ts, users |-> us]
    ELSE [err |-> NoErr, teams |-> ts \cup {teamName},
          users |-> UpsertMembers(us, teamName, members)]

\* CreateTeam: repo.ErrTeamExists becomes NewError(api.TEAMEXISTS, ...).
TeamExistsError(err) == IF err = ErrTeamExists THEN TEAMEXISTS ELSE err

\* The UPDATE with "WHERE team_name = (the user's team)".
UpdateIsActiveOfTeam(us, userID, isActive) ==
    [u \in DOMAIN us |->
        IF us[u].team_name = us[userID].team_name
        THEN [us[u] EXCEPT !.is_active = isActive] ELSE us[u]]

\* UPDATE users SET is_active = $2 WHERE user_id = $1
UpdateIsActive(us, userID, isActive) ==
    [u \in DOMAIN us |->
        IF u = userID THEN [us[u] EXCEPT !.is_active = isActive] ELSE us[u]]

\* The team-add requests, team_name and members (user_id -> username,
\* is_active) in the order the request lists them: the whole staff as
\* "backend", and two of them, in the opposite order and under another
\* username, as "pair"; the second team-add moves the users it names.  A user
\* becomes inactive by SetUserActive.
TeamRequests ==
    {[team_name |-> "backend",
      members |-> [u \in Users |-> [username |-> "Dev", is_active |-> TRUE]],
      order |-> <<"u1", "u2", "u3", "u4">>],
     [team_name |-> "pair",
      members |-> [u \in {"u3", "u4"} |-> [username |-> "Pair", is_active |-> TRUE]],
      order |-> <<"u4", "u3">>]}

\* The inputs of the other requests.
\* The author of a create request: two of the staff, and an id that is
\* never a user.  Every author has one title for the PRs they open.
Authors == {"u1", "u3", "ghost"}
Title(authorID) == IF authorID = "u1" THEN "Initial" ELSE "Retry"
Toggled == {"u4"}
Departing == {"u2", "u3", "u4"}
\* The users whose reviews are listed.
Listed == {"u2", "u4"}
\* The pull request that merge and reassign requests name; the other one
\* stands by.
Targets == {"pr-1"}

\* now() of a transaction: every transaction that reads it gets a later time.
Now == {clock + 1}

----------------------------------------------------------------------------
\* Requests

Idle ==
    [op |-> "none", pc |-> "idle", prID |-> "", prName |-> "", userID |-> "",
     flag |-> FALSE, team |-> "", pr |-> NoPR, users |-> {}, reviewers |-> <<>>,
     created |-> 0, barred |-> {}, seen |-> 0, overlap |-> FALSE, newID |-> "", rejected |-> FALSE,
     err |-> NoErr, ret |-> NoPR, list |-> <<>>,
     members |-> <<>>, order |-> <<>>, upserted |-> 0]

\* A request is served by the first handler that is not busy.
Busy(p) == proc[p].pc \notin {"idle", "done"}

Free(p) == ~Busy(p) /\ ops < MaxOps /\ \A q \in Procs : q < p => Busy(q)

Begin(p, rec) ==
    /\ proc' = [proc EXCEPT ![p] = rec]
    /\ ops' = ops + 1

\* The users who are inactive when a request starts; a user leaves the
\* barred set of every request when a later write makes the user active.
Inactive(us) == {u \in DOMAIN us : ~us[u].is_active}

Unbarred(before, after) == {u \in DOMAIN after : after[u].is_active} \ 
                           {u \in DOMAIN before : before[u].is_active}

\* Begin(p, rec) of a request that writes users.
BeginWrite(p, rec, after) ==
    /\ proc' = [q \in Procs |->
                   IF q = p THEN rec
                   ELSE [proc[q] EXCEPT !.barred = @ \ Unbarred(users, after)]]
    /\ ops' = ops + 1

\* Step(p, rec) of a request that writes users.
StepWrite(p, rec, after) ==
    /\ proc' = [q \in Procs |->
                   IF q = p THEN rec
                   ELSE [proc[q] EXCEPT !.barred = @ \ Unbarred(users, after)]]
    /\ ops' = ops

Step(p, rec) ==
    /\ proc' = [proc EXCEPT ![p] = rec]
    /\ ops' = ops

\* The service starts on the database it is pointed at (the migration is
\* CREATE ... IF NOT EXISTS): an empty one, or one in which team "backend"
\* was added and u1 opened "pr-0", reviewed by u2 and u3, and in which u4 is
\* still active or was set inactive since.
Init ==
    /\ \E seeded, u4active \in BOOLEAN :
        IF seeded
        THEN /\ teams = {"backend"}
             /\ users = [u \in Users |->
                            [username |-> "Dev", team_name |-> "backend",
                             is_active |-> (u # "u4" \/ u4active)]]
             /\ pull_requests = [id \in {"pr-0"} |->
                                    [pull_request_name |-> "Initial", author_id |-> "u1",
                                     status |-> OPEN, created_at |-> 1, merged_at |-> <<>>]]
             /\ pr_reviewers = ReviewerRows("pr-0", <<"u2", "u3">>)
             /\ clock = 1
        ELSE /\ u4active
             /\ teams = {}
             /\ users = <<>>
             /\ pull_requests = <<>>
             /\ pr_reviewers = {}
             /\ clock = 0
    /\ writes = [id \in PRIds |-> 0]
    /\ proc = [p \in Procs |-> Idle]
    /\ ops = 0

\* Row locks of the open team-add transactions.  A transaction holds the
\* row of every user it has upserted, and the key of the team it has
\* inserted, until it commits or rolls back.
\* HoldsUsers without the deferred Rollback: the transaction that the
\* deadlock detector aborted keeps its rows.
HoldsUsersNoRollback(q) ==
    IF proc[q].pc = "t_upsert" \/ proc[q].err = RawUpsertDeadlock
    THEN {proc[q].order[i] : i \in 1..proc[q].upserted}
    ELSE {}

HoldsUsers(q) ==
    IF proc[q].pc = "t_upsert" THEN {proc[q].order[i] : i \in 1..proc[q].upserted} ELSE {}

UserLocked(p, userID) == \E q \in Procs \ {p} : userID \in HoldsUsers(q)

TeamPending(p, teamName) ==
    \E q \in Procs \ {p} : proc[q].pc = "t_upsert" /\ proc[q].team = teamName

\* The user whose row the next upsert of p writes.
NextMember(p) == proc[p].order[proc[p].upserted + 1]

\* p's upsert waits for a row that q holds.
WaitsFor(p, q) ==
    /\ p # q
    /\ proc[p].pc = "t_upsert"
    /\ proc[p].upserted < Len(proc[p].order)
    /\ NextMember(p) \in HoldsUsers(q)

\* Service.CreateTeam over Repo.CreateTeamWithMembers: Begin and
\* SELECT EXISTS(SELECT 1 FROM teams WHERE team_name = $1)
CreateTeam(p, teamName, members, order) ==
    /\ Free(p)
    /\ LET rec == [Idle EXCEPT !.op = "CreateTeam", !.team = teamName,
                               !.users = DOMAIN members, !.members = members,
                               !.order = order]
           res == CreateTeamWithMembers(teams, users, teamName, members)
       IN  IF res.err # NoErr
           THEN /\ teams' = res.teams
                /\ users' = res.users
                /\ BeginWrite(p, [rec EXCEPT !.pc = "done",
                                             !.err = TeamExistsError(res.err)], res.users)
           ELSE /\ Begin(p, [rec EXCEPT !.pc = "t_insert"])
                /\ UNCHANGED <<teams, users>>
    /\ UNCHANGED <<pull_requests, pr_reviewers, writes, clock>>

\* INSERT INTO teams (team_name): waits for an open transaction that
\* inserted the same name, and fails on the primary key if the name is there.
CreateTeam_Insert(p) ==
    /\ proc[p].pc = "t_insert"
    /\ ~TeamPending(p, proc[p].team)
    /\ IF proc[p].team \in teams
       THEN /\ Step(p, [proc[p] EXCEPT !.pc = "done",
                                       !.err = TeamExistsError(RawInsertTeam)])
            /\ UNCHANGED teams
       ELSE /\ teams' = TxExec(teams, teams \cup {proc[p].team})
            /\ Step(p, [proc[p] EXCEPT !.pc = "t_upsert"])
    /\ UNCHANGED <<users, pull_requests, pr_reviewers, writes, clock>>

\* INSERT INTO users ... ON CONFLICT (user_id) DO UPDATE for the next
\* member: waits for the row if another open transaction wrote it.
CreateTeam_Upsert(p) ==
    /\ proc[p].pc = "t_upsert"
    /\ proc[p].upserted < Len(proc[p].order)
    /\ ~UserLocked(p, NextMember(p))
    /\ LET one == [u \in {NextMember(p)} |-> proc[p].members[u]]
       IN  users' = TxExec(users, UpsertMembers(users, proc[p].team, one))
    /\ Step(p, [proc[p] EXCEPT !.upserted = @ + 1])
    /\ UNCHANGED <<teams, pull_requests, pr_reviewers, writes, clock>>

\* loadTeamTx and Commit
CreateTeam_Commit(p) ==
    /\ proc[p].pc = "t_upsert"
    /\ proc[p].upserted = Len(proc[p].order)
    /\ LET after == UpsertMembers(users, proc[p].team, proc[p].members)
       IN  /\ teams' = teams \cup {proc[p].team}
           /\ users' = after
           /\ StepWrite(p, [proc[p] EXCEPT !.pc = "done"], after)
    /\ UNCHANGED <<pull_requests, pr_reviewers, writes, clock>>

\* Two transactions wait for each other's rows: PostgreSQL's deadlock
\* detector aborts one of them (40P01); the deferred Rollback releases what
\* it held.
CreateTeam_Deadlock(p) ==
    /\ \E q \in Procs : WaitsFor(p, q) /\ WaitsFor(q, p)
    /\ Step(p, [proc[p] EXCEPT !.pc = "done", !.err = TeamExistsError(RawUpsertDeadlock)])
    /\ UNCHANGED <<teams, users, pull_requests, pr_reviewers, writes, clock>>

\* Service.SetUserActive over Repo.SetUserActive (one UPDATE): it finds no
\* row, or waits for the row if an open transaction wrote it, or updates it.
SetUserActive(p, userID, isActive) ==
    /\ Free(p)
    /\ LET rec == [Idle EXCEPT !.op = "SetUserActive", !.pc = "done", !.userID = userID,
                               !.flag = isActive]
       IN  IF userID \notin DOMAIN users
           THEN /\ Begin(p, [rec EXCEPT !.err = NotFoundError(FALSE)])
                /\ UNCHANGED users
           ELSE IF UserLocked(p, userID)
           THEN /\ Begin(p, [rec EXCEPT !.pc = "s_update"])
                /\ UNCHANGED users
           ELSE /\ users' = UpdateIsActive(users, userID, isActive)
                /\ BeginWrite(p, [rec EXCEPT !.team = users[userID].team_name],
                              UpdateIsActive(users, userID, isActive))
    /\ UNCHANGED <<teams, pull_requests, pr_reviewers, writes, clock>>

\* The UPDATE of Repo.SetUserActive after its wait for the row.
SetUserActive_Update(p) ==
    /\ proc[p].pc = "s_update"
    /\ ~UserLocked(p, proc[p].userID)
    /\ LET after == UpdateIsActive(users, proc[p].userID, proc[p].flag)
       IN  /\ users' = after
           /\ StepWrite(p, [proc[p] EXCEPT !.pc = "done",
                                           !.team = users[proc[p].userID].team_name], after)
    /\ UNCHANGED <<teams, pull_requests, pr_reviewers, writes, clock>>

\* Service.ListUserReviewPRs over Repo.ListUserReviewPRs (one SELECT).
GetReview(p, userID) ==
    /\ Free(p)
    /\ \E res \in ListUserReviewPRs(pull_requests, pr_reviewers, userID) :
        Begin(p, [Idle EXCEPT !.op = "ListUserReviewPRs", !.pc = "done",
                              !.userID = userID, !.list = res])
    /\ UNCHANGED <<teams, users, pull_requests, pr_reviewers, writes, clock>>

----------------------------------------------------------------------------
\* Service.CreatePullRequest

\* s.repo.PullRequestExists
CreatePR_Exists(p, id, name, authorID) ==
    /\ Free(p)
    /\ LET rec == [Idle EXCEPT !.op = "CreatePullRequest", !.prID = id, !.prName = name,
                               !.userID = authorID]
           err == ExistsError(PullRequestExists(pull_requests, id))
       IN  IF err # NoErr
           THEN Begin(p, [rec EXCEPT !.pc = "done", !.err = err])
           ELSE Begin(p, [rec EXCEPT !.pc = "c_getuser", !.barred = Inactive(users)])
    /\ UNCHANGED <<teams, users, pull_requests, pr_reviewers, writes, clock>>

\* s.repo.GetUser(authorID)
CreatePR_GetUser(p) ==
    /\ proc[p].pc = "c_getuser"
    /\ IF proc[p].userID \notin DOMAIN users
       THEN Step(p, [proc[p] EXCEPT !.pc = "done", !.err = NotFoundError(FALSE)])
       ELSE Step(p, [proc[p] EXCEPT !.pc = "c_list",
                                    !.team = users[proc[p].userID].team_name])
    /\ UNCHANGED <<teams, users, pull_requests, pr_reviewers, writes, clock>>

\* s.repo.ListActiveUsersInTeam, the candidates loop and pickRandom
CreatePR_Pick(p) ==
    /\ proc[p].pc = "c_list"
    /\ LET active == ListActiveUsersInTeam(users, proc[p].team)
           results == UNION {pickRandom(CreateCandidates(list, proc[p].userID), 2) :
                                list \in RowOrders(active)}
       IN  \E picked \in results :
               Step(p, [proc[p] EXCEPT !.pc = "c_insert", !.users = active,
                                       !.reviewers = picked])
    /\ UNCHANGED <<teams, users, pull_requests, pr_reviewers, writes, clock>>

\* Another request's open transaction inserted the row of prID: an INSERT
\* of the same key waits for it to end.
InsertPending(p, prID) ==
    \E q \in Procs \ {p} : proc[q].pc = "c_commit" /\ proc[q].prID = prID

\* s.repo.CreatePullRequest: Begin, INSERT INTO pull_requests
CreatePR_Insert(p) ==
    /\ proc[p].pc = "c_insert"
    /\ ~InsertPending(p, proc[p].prID)
    /\ IF PullRequestExists(pull_requests, proc[p].prID)
       THEN /\ Step(p, [proc[p] EXCEPT !.pc = "done", !.err = RawInsertPR])
            /\ UNCHANGED <<pull_requests, clock>>
       ELSE \E now \in Now :
            LET prs == InsertPullRequest(pull_requests, proc[p].prID, proc[p].prName,
                                         proc[p].userID, now)
            IN  /\ pull_requests' = TxExec(pull_requests, prs)
                /\ clock' = now
                /\ Step(p, [proc[p] EXCEPT !.pc = "c_commit", !.created = now])
    /\ UNCHANGED <<teams, users, pr_reviewers, writes>>

\* s.repo.CreatePullRequest: INSERT INTO pr_reviewers for every reviewer,
\* loadPullRequestTx, Commit; a failed INSERT rolls the transaction back.
CreatePR_Commit(p) ==
    /\ proc[p].pc = "c_commit"
    /\ LET id == proc[p].prID
           rv == proc[p].reviewers
           prs == InsertPullRequest(pull_requests, id, proc[p].prName, proc[p].userID,
                                    proc[p].created)
           rows == pr_reviewers \cup ReviewerRows(id, rv)
       IN  IF Cardinality(Range(rv)) < Len(rv)
           THEN /\ Step(p, [proc[p] EXCEPT !.pc = "done", !.err = RawInsertReviewer])
                /\ UNCHANGED <<pull_requests, pr_reviewers>>
           ELSE /\ pull_requests' = prs
                /\ pr_reviewers' = rows
                /\ Step(p, [proc[p] EXCEPT !.pc = "done",
                                           !.ret = loadPullRequestTx(prs, rows, id)])
    /\ UNCHANGED <<teams, users, writes, clock>>

----------------------------------------------------------------------------
\* Service.MergePullRequest

\* The merge transaction of another request holds the row lock of prID.
RowLocked(prID) == \E q \in Procs : proc[q].pc = "m_commit" /\ proc[q].prID = prID

\* if pr.Status == api.PullRequestStatusMERGED { return pr, nil }
MergeIsNoop(pr) == pr.Status = MERGED

\* s.repo.GetPullRequest and the status check
Merge_Get(p, id) ==
    /\ Free(p)
    /\ LET rec == [Idle EXCEPT !.op = "MergePullRequest", !.prID = id]
       IN  IF ~PullRequestExists(pull_requests, id)
           THEN Begin(p, [rec EXCEPT !.pc = "done", !.err = NotFoundError(FALSE)])
           ELSE LET pr == loadPullRequestTx(pull_requests, pr_reviewers, id)
                IN  IF MergeIsNoop(pr)
                    THEN Begin(p, [rec EXCEPT !.pc = "done", !.pr = pr, !.ret = pr])
                    ELSE Begin(p, [rec EXCEPT !.pc = "m_update", !.pr = pr])
    /\ UNCHANGED <<teams, users, pull_requests, pr_reviewers, writes, clock>>

\* s.repo.MarkPullRequestMerged: the UPDATE, which waits for the row lock,
\* and loadPullRequestTx inside the transaction
Merge_Update(p) ==
    /\ proc[p].pc = "m_update"
    /\ ~RowLocked(proc[p].prID)
    /\ \E now \in Now :
        LET id == proc[p].prID
            prs == [pull_requests EXCEPT ![id] = MarkPullRequestMerged(pull_requests[id], now)]
        IN  /\ clock' = now
            /\ Step(p, [proc[p] EXCEPT !.pc = "m_commit",
                                       !.ret = loadPullRequestTx(prs, pr_reviewers, id)])
    /\ UNCHANGED <<teams, users, pull_requests, pr_reviewers, writes>>

\* s.repo.MarkPullRequestMerged: tx.Commit, which makes the row version the
\* UPDATE wrote (and loadPullRequestTx read back) the visible one
Merge_Commit(p) ==
    /\ proc[p].pc = "m_commit"
    /\ pull_requests' = [pull_requests EXCEPT ![proc[p].prID] =
                            [pull_request_name |-> proc[p].ret.PullRequestName,
                             author_id |-> proc[p].ret.AuthorId,
                             status |-> proc[p].ret.Status,
                             created_at |-> proc[p].ret.CreatedAt[1],
                             merged_at |-> proc[p].ret.MergedAt]]
    /\ writes' = [writes EXCEPT ![proc[p].prID] = @ + 1]
    /\ Step(p, [proc[p] EXCEPT !.pc = "done"])
    /\ UNCHANGED <<teams, users, pr_reviewers, clock>>

----------------------------------------------------------------------------
\* Service.ReassignReviewer

\* The requests in flight that reassign the same reviewer of the same PR.
Rivals(p, id, oldUserID) ==
    {q \in Procs \ {p} : /\ proc[q].op = "ReassignReviewer"
                          /\ Busy(q)
                          /\ proc[q].prID = id
                          /\ proc[q].userID = oldUserID}

\* Begin(p, rec), noting on both sides (overlap) that p runs while a rival
\* is in flight, and (seen) how many writes the PR had when p read it.
BeginReassign(p, rec) ==
    LET rivals == Rivals(p, rec.prID, rec.userID)
    IN  /\ proc' = [q \in Procs |->
                       IF q = p THEN [rec EXCEPT !.overlap = (rivals # {}),
                                                 !.seen = writes[rec.prID]]
                       ELSE IF q \in rivals THEN [proc[q] EXCEPT !.overlap = TRUE]
                       ELSE proc[q]]
        /\ ops' = ops + 1

\* s.repo.GetPullRequest, the status check and the assigned check
Reassign_Get(p, id, oldUserID) ==
    /\ Free(p)
    /\ LET rec == [Idle EXCEPT !.op = "ReassignReviewer", !.prID = id, !.userID = oldUserID]
       IN  IF ~PullRequestExists(pull_requests, id)
           THEN Begin(p, [rec EXCEPT !.pc = "done", !.err = NotFoundError(FALSE)])
           ELSE LET pr == loadPullRequestTx(pull_requests, pr_reviewers, id)
                    err == ReassignPrecheck(pr, oldUserID)
                IN  IF err # NoErr
                    THEN BeginReassign(p, [rec EXCEPT !.pc = "done", !.pr = pr, !.err = err])
                    ELSE BeginReassign(p, [rec EXCEPT !.pc = "r_getuser", !.pr = pr,
                                                      !.barred = Inactive(users)])
    /\ UNCHANGED <<teams, users, pull_requests, pr_reviewers, writes, clock>>

\* s.repo.GetUser(oldUserID)
Reassign_GetUser(p) ==
    /\ proc[p].pc = "r_getuser"
    /\ IF proc[p].userID \notin DOMAIN users
       THEN Step(p, [proc[p] EXCEPT !.pc = "done", !.err = NotFoundError(FALSE)])
       ELSE Step(p, [proc[p] EXCEPT !.pc = "r_list",
                                    !.team = users[proc[p].userID].team_name])
    /\ UNCHANGED <<teams, users, pull_requests, pr_reviewers, writes, clock>>

\* s.repo.ListActiveUsersInTeam, the exclude map, the candidates loop,
\* the NoCandidate check and pickRandom
Reassign_Pick(p) ==
    /\ proc[p].pc = "r_list"
    /\ LET active == ListActiveUsersInTeam(users, proc[p].team)
           exclude == Exclude(proc[p].pr, proc[p].userID)
           lists == {ReassignCandidates(list, exclude) : list \in RowOrders(active)}
           results == UNION {pickRandom(candidates, 1) : candidates \in lists}
       IN  IF \A candidates \in lists : Len(candidates) = 0
           THEN Step(p, [proc[p] EXCEPT !.pc = "done", !.users = active,
                                        !.err = NOCANDIDATE])
           ELSE \E picked \in results :
                    Step(p, [proc[p] EXCEPT !.pc = "r_replace", !.users = active,
                                            !.newID = picked[1]])
    /\ UNCHANGED <<teams, users, pull_requests, pr_reviewers, writes, clock>>

\* The error ReassignReviewer returns for the error of s.repo.ReplaceReviewer.
ReplaceError(err) == IF err = ErrReviewerNotFound THEN NOTASSIGNED ELSE err

\* s.repo.ReplaceReviewer
Reassign_Replace(p) ==
    /\ proc[p].pc = "r_replace"
    /\ LET res == ReplaceReviewer(pull_requests, pr_reviewers, proc[p].prID,
                                  proc[p].userID, proc[p].newID)
       IN  /\ pr_reviewers' = res.rows
           /\ IF res.err # NoErr
              THEN /\ Step(p, [proc[p] EXCEPT !.pc = "done", !.err = ReplaceError(res.err),
                                              !.rejected = (res.err = RawMergedTrigger)])
                   /\ UNCHANGED writes
              ELSE /\ Step(p, [proc[p] EXCEPT !.pc = "r_reload"])
                   /\ writes' = [writes EXCEPT ![proc[p].prID] = @ + 1]
    /\ UNCHANGED <<teams, users, pull_requests, clock>>

\* s.repo.GetPullRequest and the return of (updated, newID, nil)
Reassign_Reload(p) ==
    /\ proc[p].pc = "r_reload"
    /\ Step(p, [proc[p] EXCEPT !.pc = "done",
                   !.ret = loadPullRequestTx(pull_requests, pr_reviewers, proc[p].prID)])
    /\ UNCHANGED <<teams, users, pull_requests, pr_reviewers, writes, clock>>

\* s.repo.GetPullRequest(ctx, prID) after the write fails (the request's
\* context is cancelled, the connection is lost): its error is returned.
Reassign_ReloadFails(p) ==
    /\ proc[p].pc = "r_reload"
    /\ Step(p, [proc[p] EXCEPT !.pc = "done", !.err = RawBeginTx])
    /\ UNCHANGED <<teams, users, pull_requests, pr_reviewers, writes, clock>>

----------------------------------------------------------------------------
Next ==
    \/ \E p \in Procs, r \in TeamRequests : CreateTeam(p, r.team_name, r.members, r.order)
    \/ \E p \in Procs : CreateTeam_Insert(p)
    \/ \E p \in Procs : CreateTeam_Upsert(p)
    \/ \E p \in Procs : CreateTeam_Commit(p)
    \/ \E p \in Procs : CreateTeam_Deadlock(p)
    \/ \E p \in Procs, u \in Toggled, b \in BOOLEAN : SetUserActive(p, u, b)
    \/ \E p \in Procs : SetUserActive_Update(p)
    \/ \E p \in Procs, u \in Listed : GetReview(p, u)
    \/ \E p \in Procs, id \in PRIds, a \in Authors : CreatePR_Exists(p, id, Title(a), a)
    \/ \E p \in Procs : CreatePR_GetUser(p)
    \/ \E p \in Procs : CreatePR_Pick(p)
    \/ \E p \in Procs : CreatePR_Insert(p)
    \/ \E p \in Procs : CreatePR_Commit(p)
    \/ \E p \in Procs, id \in Targets : Merge_Get(p, id)
    \/ \E p \in Procs : Merge_Update(p)
    \/ \E p \in Procs : Merge_Commit(p)
    \/ \E p \in Procs, id \in Targets, u \in Departing : Reassign_Get(p, id, u)
    \/ \E p \in Procs : Reassign_GetUser(p)
    \/ \E p \in Procs : Reassign_Pick(p)
    \/ \E p \in Procs : Reassign_Replace(p)
    \/ \E p \in Procs : Reassign_Reload(p)
    \/ \E p \in Procs : Reassign_ReloadFails(p)

Spec == Init /\ [][Next]_vars

\* The steps of the request that handler p runs.  Each request is a goroutine
\* and each transaction a PostgreSQL backend: one that can take a step takes it.
Continue(p) ==
    \/ CreateTeam_Insert(p)
    \/ CreateTeam_Upsert(p)
    \/ CreateTeam_Commit(p)
    \/ CreateTeam_Deadlock(p)
    \/ SetUserActive_Update(p)
    \/ CreatePR_GetUser(p)
    \/ CreatePR_Pick(p)
    \/ CreatePR_Insert(p)
    \/ CreatePR_Commit(p)
    \/ Merge_Update(p)
    \/ Merge_Commit(p)
    \/ Reassign_GetUser(p)
    \/ Reassign_Pick(p)
    \/ Reassign_Replace(p)
    \/ Reassign_Reload(p)
    \/ Reassign_ReloadFails(p)

\* The behaviours checked for termination: the last MaxLive requests of the
\* MaxOps, on an empty database or on one in which "pr-1" is open as well,
\* so that two requests suffice for every pair of operations on one PR.
LiveInit ==
    /\ \E seeded \in BOOLEAN :
        IF seeded
        THEN /\ teams = {"backend"}
             /\ users = [u \in Users |->
                            [username |-> "Dev", team_name |-> "backend",
                             is_active |-> TRUE]]
             /\ pull_requests = [id \in PRIds |->
                                    [pull_request_name |-> "Initial", author_id |-> "u1",
                                     status |-> OPEN,
                                     created_at |-> IF id = "pr-0" THEN 1 ELSE 2,
                                     merged_at |-> <<>>]]
             /\ pr_reviewers = ReviewerRows("pr-0", <<"u2", "u3">>)
                                   \cup ReviewerRows("pr-1", <<"u2", "u3">>)
             /\ clock = 2
        ELSE /\ teams = {}
             /\ users = <<>>
             /\ pull_requests = <<>>
             /\ pr_reviewers = {}
             /\ clock = 0
    /\ writes = [id \in PRIds |-> 0]
    /\ proc = [p \in Procs |-> Idle]
    /\ ops = MaxOps - MaxLive

LiveSpec == LiveInit /\ [][Next]_vars /\ \A p \in Procs : WF_vars(Continue(p))

----------------------------------------------------------------------------
\* Properties

Done(p, op) == proc[p].op = op /\ proc[p].pc = "done"

Slots(rows, prID) == {r \in rows : r.pr_id = prID}

Min(a, b) == IF a <= b THEN a ELSE b

\* This step starts a request on handler p.
Starts(p) == Free(p) /\ ops' = ops + 1

\* This step is the last one of a request of handler p.
Ends(p) == (Busy(p) \/ Starts(p)) /\ proc'[p].pc = "done"

\* C1: the reviewer slots of a PR whose merge has committed never change, and
\* a ReassignReviewer whose slot write reaches storage when the status is
\* already MERGED ends with an error.
C1_ReviewersFrozenAfterMerge ==
    [][/\ \A id \in DOMAIN pull_requests :
            pull_requests[id].status = MERGED =>
                Slots(pr_reviewers', id) = Slots(pr_reviewers, id)
       /\ \A p \in Procs :
            (/\ proc[p].pc = "r_replace"
             /\ proc'[p].pc # "r_replace"
             /\ pull_requests[proc[p].prID].status = MERGED)
            => proc'[p].pc = "done" /\ proc'[p].err # NoErr]_vars

\* A ReassignReviewer read the PR as OPEN, a merge committed, and the slot
\* write was rejected by the trigger.
C1_Witness ==
    \E p \in Procs :
        /\ Done(p, "ReassignReviewer")
        /\ proc[p].rejected
        /\ proc[p].pr.Status = OPEN
        /\ pull_requests[proc[p].prID].status = MERGED

\* C2: a successful CreatePullRequest whose author's team had N active
\* members other than the author when it was read returns min(N, 2)
\* reviewers, all of them among those members, none the author, none twice.
C2_CreateAssignsMinN2 ==
    \A p \in Procs :
        (Done(p, "CreatePullRequest") /\ proc[p].err = NoErr) =>
            LET rv == proc[p].ret.AssignedReviewers
                others == proc[p].users \ {proc[p].userID}
            IN  /\ Len(rv) = Min(Cardinality(others), 2)
                /\ Range(rv) \subseteq others
                /\ Cardinality(Range(rv)) = Len(rv)
                /\ proc[p].ret.AuthorId = proc[p].userID
                /\ proc[p].ret.Status = OPEN

\* A PR was created with 2 reviewers drawn from 3 candidates.
C2_Witness ==
    \E p \in Procs :
        /\ Done(p, "CreatePullRequest")
        /\ proc[p].err = NoErr
        /\ Cardinality(proc[p].users \ {proc[p].userID}) = 3
        /\ Len(proc[p].ret.AssignedReviewers) = 2

\* C3: every successful MergePullRequest returns the stored merged_at, so a
\* repeated merge returns what the first one returned; a merge of a PR that
\* is already MERGED returns the PR as it is stored, which it left unchanged.
C3_MergeIdempotent ==
    \A p \in Procs :
        Done(p, "MergePullRequest") /\ proc[p].pr # NoPR =>
            /\ proc[p].err = NoErr
            /\ proc[p].ret.Status = MERGED
            /\ Len(proc[p].ret.MergedAt) = 1
            /\ pull_requests[proc[p].prID].status = MERGED
            /\ pull_requests[proc[p].prID].merged_at = proc[p].ret.MergedAt
            /\ proc[p].pr.Status = MERGED =>
                /\ proc[p].ret = proc[p].pr
                /\ proc[p].ret = loadPullRequestTx(pull_requests, pr_reviewers, proc[p].prID)

\* A merge of a PR that was already MERGED has returned.
C3_Witness ==
    \E p \in Procs :
        /\ Done(p, "MergePullRequest")
        /\ proc[p].pr.Status = MERGED
        /\ proc[p].err = NoErr

\* C4: a ReassignReviewer that loads the PR as MERGED ends there with
\* PR_MERGED, whether oldUserID is assigned or not, without selecting or
\* writing a replacement.
C4_ReassignOnMergedFails ==
    \A p \in Procs :
        (proc[p].op = "ReassignReviewer" /\ proc[p].pr.Status = MERGED) =>
            /\ proc[p].pc = "done"
            /\ proc[p].err = PRMERGED
            /\ proc[p].newID = ""

\* ReassignReviewer of an assigned reviewer of a MERGED PR has returned.
C4_Witness ==
    \E p \in Procs :
        /\ Done(p, "ReassignReviewer")
        /\ proc[p].pr.Status = MERGED
        /\ proc[p].userID \in Range(proc[p].pr.AssignedReviewers)

\* C5 as claimed: ReassignReviewer of a user who is not assigned to the
\* loaded PR fails with NOT_ASSIGNED, whatever the PR's status.
C5_NotAssignedWhateverStatus ==
    \A p \in Procs :
        (/\ Done(p, "ReassignReviewer")
         /\ proc[p].pr # NoPR
         /\ proc[p].userID \notin Range(proc[p].pr.AssignedReviewers))
        => proc[p].err = NOTASSIGNED

\* C5 amended: ReassignReviewer of a user who is not assigned to the loaded
\* PR fails with NOT_ASSIGNED when the PR is OPEN, and with PR_MERGED when it
\* is MERGED.
C5_NotAssignedWhenOpen ==
    \A p \in Procs :
        (/\ proc[p].op = "ReassignReviewer"
         /\ proc[p].pr # NoPR
         /\ proc[p].userID \notin Range(proc[p].pr.AssignedReviewers))
        => /\ proc[p].pc = "done"
           /\ proc[p].err = IF proc[p].pr.Status = OPEN THEN NOTASSIGNED ELSE PRMERGED

\* ReassignReviewer of a user who is not assigned to an OPEN PR has returned.
C5_Witness ==
    \E p \in Procs :
        /\ Done(p, "ReassignReviewer")
        /\ proc[p].pr.Status = OPEN
        /\ proc[p].userID \notin Range(proc[p].pr.AssignedReviewers)
        /\ proc[p].err = NOTASSIGNED

\* Two ReassignReviewer requests for the same reviewer of the same PR ran at
\* the same time, both have returned, oldUserID was assigned when the first
\* of them read the PR, and nothing but the two wrote to that PR since.
Raced(p, q) ==
    /\ p # q
    /\ Done(p, "ReassignReviewer") /\ Done(q, "ReassignReviewer")
    /\ proc[p].overlap /\ proc[q].overlap
    /\ proc[p].prID = proc[q].prID /\ proc[p].userID = proc[q].userID
    /\ proc[p].pr # NoPR /\ proc[q].pr # NoPR
    /\ proc[p].seen <= proc[q].seen
    /\ proc[p].userID \in Range(proc[p].pr.AssignedReviewers)
    /\ writes[proc[p].prID] =
            proc[p].seen + Cardinality({x \in {p, q} : proc[x].err = NoErr})
    /\ pull_requests[proc[p].prID].status = OPEN

\* One of the two succeeded, the other failed with NOT_ASSIGNED, and the
\* slot holds the replacement the winner chose.
OneWinner(p, q) ==
    \E w \in {p, q} : \E l \in {p, q} \ {w} :
        /\ proc[w].err = NoErr
        /\ proc[l].err = NOTASSIGNED
        /\ \E r \in Slots(pr_reviewers, proc[w].prID) :
            /\ r.reviewer_id = proc[w].newID
            /\ proc[w].pr.AssignedReviewers[r.slot] = proc[w].userID

ListRead(p) ==
    proc[p].op = "ReassignReviewer" /\ proc[p].team # "" /\ proc[p].pc # "r_list"

\* C7: a ReassignReviewer that finds every active member of oldUserID's
\* team to be the author, an assigned reviewer or oldUserID ends with
\* NO_CANDIDATE, without a replacement and without a slot write.
C7_NoSurplusNoCandidate ==
    \A p \in Procs :
        (/\ ListRead(p)
         /\ proc[p].users \subseteq
                {proc[p].pr.AuthorId, proc[p].userID} \cup Range(proc[p].pr.AssignedReviewers))
        => /\ proc[p].pc = "done"
           /\ proc[p].err = NOCANDIDATE
           /\ proc[p].newID = ""

\* The sole reviewer of a PR of the two-person team "pair" was to be
\* reassigned, and the request ended with NO_CANDIDATE.
C7_Witness ==
    \E p \in Procs :
        /\ Done(p, "ReassignReviewer")
        /\ proc[p].err = NOCANDIDATE
        /\ proc[p].team = "pair"
        /\ proc[p].users = {"u3", "u4"}
        /\ {u \in DOMAIN users : users[u].team_name = "pair"} = {"u3", "u4"}
        /\ proc[p].pr.AuthorId = "u3"
        /\ proc[p].pr.AssignedReviewers = <<"u4">>
        /\ proc[p].userID = "u4"

\* C8: the team ReassignReviewer reads is oldUserID's; the replacement it
\* selects is an active member of that team when the team is read, and is not
\* the author, oldUserID or a reviewer of the loaded PR; and it is the
\* replacement a successful request returns.
C8_ReplacementFromDepartingTeam ==
    [][\A p \in Procs :
        /\ (proc[p].pc = "r_getuser" /\ proc'[p].pc = "r_list")
            => proc'[p].team = users[proc[p].userID].team_name
        /\ (proc[p].pc = "r_list" /\ proc'[p].pc = "r_replace")
            => /\ proc'[p].newID \in DOMAIN users
               /\ users[proc'[p].newID].team_name = proc[p].team
               /\ users[proc'[p].newID].is_active
               /\ proc'[p].newID \notin
                    {proc[p].pr.AuthorId, proc[p].userID} \cup Range(proc[p].pr.AssignedReviewers)
        /\ (proc[p].pc \in {"r_replace", "r_reload"} /\ proc'[p].pc # proc[p].pc)
            => /\ proc'[p].newID = proc[p].newID
               /\ proc'[p].pc = "done" /\ proc'[p].err = NoErr => proc[p].pc = "r_reload"]_vars

\* A reassignment succeeded with a replacement from the departing reviewer's
\* team, which is not the author's team.
C8_Witness ==
    \E p \in Procs :
        /\ Done(p, "ReassignReviewer")
        /\ proc[p].err = NoErr
        /\ users[proc[p].newID].team_name = proc[p].team
        /\ users[proc[p].pr.AuthorId].team_name # proc[p].team

\* C9: the slot write of a ReassignReviewer that succeeds puts the new
\* reviewer in the slot that held oldUserID and changes no other row of
\* pr_reviewers, no PR row (the status is and stays OPEN), no user and no
\* team; after it oldUserID holds no slot of the PR; and a ReassignReviewer
\* that starts when oldUserID holds no slot of the OPEN PR fails NOT_ASSIGNED.
C9_ReassignChangesOneSlot ==
    [][\A p \in Procs :
        /\ (proc[p].pc = "r_replace" /\ proc'[p].pc = "r_reload")
            => \E r \in pr_reviewers :
                /\ r.pr_id = proc[p].prID /\ r.reviewer_id = proc[p].userID
                /\ pr_reviewers' =
                     (pr_reviewers \ {r}) \cup {[r EXCEPT !.reviewer_id = proc[p].newID]}
                /\ \A x \in Slots(pr_reviewers', proc[p].prID) : x.reviewer_id # proc[p].userID
                /\ pull_requests[proc[p].prID].status = OPEN
                /\ pull_requests' = pull_requests /\ users' = users /\ teams' = teams
        /\ (/\ Free(p) /\ ops' = ops + 1
            /\ proc'[p].op = "ReassignReviewer"
            /\ proc'[p].prID \in DOMAIN pull_requests
            /\ pull_requests[proc'[p].prID].status = OPEN
            /\ \A x \in Slots(pr_reviewers, proc'[p].prID) : x.reviewer_id # proc'[p].userID)
            => proc'[p].pc = "done" /\ proc'[p].err = NOTASSIGNED]_vars

\* A reassignment succeeded on one PR while the departing reviewer also
\* holds a slot of the other PR.
C9_Witness ==
    \E p \in Procs :
        /\ Done(p, "ReassignReviewer")
        /\ proc[p].err = NoErr
        /\ \E r \in pr_reviewers : r.pr_id # proc[p].prID /\ r.reviewer_id = proc[p].userID
        /\ \E i \in 1..Len(proc[p].pr.AssignedReviewers) :
            /\ proc[p].pr.AssignedReviewers[i] = proc[p].userID
            /\ Len(proc[p].ret.AssignedReviewers) = Len(proc[p].pr.AssignedReviewers)
            /\ proc[p].ret.AssignedReviewers[i] = proc[p].newID

\* C10 as claimed: a ReassignReviewer whose slot write the merge-freeze
\* trigger rejected returns PR_MERGED.
C10_TriggerRejectionIsAlreadyMerged ==
    \A p \in Procs :
        (Done(p, "ReassignReviewer") /\ proc[p].rejected) => proc[p].err = PRMERGED

\* C11: a CreatePullRequest that starts when a PR with its id exists ends
\* at once with PR_EXISTS, whatever its name and author, and changes no row
\* of pull_requests or pr_reviewers.
C11_DuplicateCreateFails ==
    [][\A p \in Procs :
        (/\ Starts(p)
         /\ proc'[p].op = "CreatePullRequest"
         /\ proc'[p].prID \in DOMAIN pull_requests)
        => /\ proc'[p].pc = "done"
           /\ proc'[p].err = PREXISTS
           /\ proc'[p].ret = NoPR
           /\ pull_requests' = pull_requests
           /\ pr_reviewers' = pr_reviewers]_vars

\* A create request with another name and another author than the stored
\* PR of its id has ended with PR_EXISTS.
C11_Witness ==
    \E p \in Procs :
        /\ Done(p, "CreatePullRequest")
        /\ proc[p].err = PREXISTS
        /\ proc[p].prID \in DOMAIN pull_requests
        /\ pull_requests[proc[p].prID].author_id # proc[p].userID
        /\ pull_requests[proc[p].prID].pull_request_name # proc[p].prName

\* C12 as claimed: of two CreatePullRequest requests with the same id and
\* known authors that both passed the existence pre-check, one succeeds and
\* the other fails with PR_EXISTS.
C12_ConcurrentCreateLoserAlreadyExists ==
    \A p, q \in Procs :
        (/\ p # q
         /\ Done(p, "CreatePullRequest") /\ Done(q, "CreatePullRequest")
         /\ proc[p].prID = proc[q].prID
         /\ proc[p].team # "" /\ proc[q].team # "")
        => \E w \in {p, q} : \E l \in {p, q} \ {w} :
            /\ proc[w].err = NoErr
            /\ proc[l].err = PREXISTS
            /\ proc[w].prID \in DOMAIN pull_requests

\* C13: a PR row becomes visible only at the commit of its creation, with
\* exactly the reviewer rows the creation selected and as the creation
\* returns it; reviewer rows exist only for visible PRs and none is added or
\* removed later; a CreatePullRequest that ends with an error wrote nothing.
C13_CreateIsAtomic ==
    [][/\ \A id \in PRIds :
            (id \notin DOMAIN pull_requests /\ id \in DOMAIN pull_requests')
            => \E p \in Procs :
                /\ proc[p].pc = "c_commit" /\ proc[p].prID = id
                /\ proc'[p].pc = "done" /\ proc'[p].err = NoErr
                /\ Slots(pr_reviewers', id) = ReviewerRows(id, proc[p].reviewers)
                /\ proc'[p].ret = loadPullRequestTx(pull_requests', pr_reviewers', id)
       /\ \A id \in PRIds :
            IF id \in DOMAIN pull_requests
            THEN {r.slot : r \in Slots(pr_reviewers', id)} = {r.slot : r \in Slots(pr_reviewers, id)}
            ELSE Slots(pr_reviewers, id) = {}
       /\ \A p \in Procs :
            (Ends(p) /\ proc'[p].op = "CreatePullRequest" /\ proc'[p].err # NoErr)
            => pull_requests' = pull_requests /\ pr_reviewers' = pr_reviewers]_vars

\* A creation that selected two reviewers has inserted its PR row and not
\* yet committed: no row of it is visible, and a concurrent request for the
\* same PR has found none.
C13_Witness ==
    \E p, q \in Procs :
        /\ proc[p].pc = "c_commit"
        /\ Len(proc[p].reviewers) = 2
        /\ proc[p].prID \notin DOMAIN pull_requests
        /\ Slots(pr_reviewers, proc[p].prID) = {}
        /\ proc[q].pc = "done" /\ proc[q].prID = proc[p].prID
        /\ proc[q].err = NOTFOUND

\* C14: a CreatePullRequest of a new id whose author is not a user ends
\* with NOT_FOUND at the author lookup and writes nothing.
C14_UnknownAuthorNotFound ==
    [][\A p \in Procs :
        (proc[p].pc = "c_getuser" /\ proc[p].userID \notin DOMAIN users /\ Ends(p))
        => /\ proc'[p].pc = "done"
           /\ proc'[p].err = NOTFOUND
           /\ proc'[p].ret = NoPR
           /\ pull_requests' = pull_requests
           /\ pr_reviewers' = pr_reviewers]_vars

\* A create request by "ghost" on a database that has users ended with
\* NOT_FOUND, and no PR of its id exists.
C14_Witness ==
    \E p \in Procs :
        /\ Done(p, "CreatePullRequest")
        /\ proc[p].err = NOTFOUND
        /\ proc[p].userID \notin DOMAIN users
        /\ DOMAIN users # {}
        /\ proc[p].prID \notin DOMAIN pull_requests

\* C15: a MergePullRequest or ReassignReviewer that starts when no PR with
\* its id is visible ends at once with NOT_FOUND and changes no table.
C15_UnknownPRNotFound ==
    [][\A p \in Procs :
        (/\ Starts(p)
         /\ proc'[p].op \in {"MergePullRequest", "ReassignReviewer"}
         /\ proc'[p].prID \notin DOMAIN pull_requests)
        => /\ proc'[p].pc = "done"
           /\ proc'[p].err = NOTFOUND
           /\ proc'[p].ret = NoPR /\ proc'[p].newID = ""
           /\ pull_requests' = pull_requests
           /\ pr_reviewers' = pr_reviewers
           /\ users' = users /\ teams' = teams]_vars

\* A merge and a reassignment of a PR that does not exist have both ended
\* with NOT_FOUND.
C15_Witness ==
    \E p, q \in Procs :
        /\ Done(p, "MergePullRequest") /\ proc[p].err = NOTFOUND
        /\ Done(q, "ReassignReviewer") /\ proc[q].err = NOTFOUND
        /\ proc[p].prID \notin DOMAIN pull_requests
        /\ proc[q].prID \notin DOMAIN pull_requests

\* C16: the merge transaction of a PR read as OPEN loads the PR as it
\* returns it, MERGED and with merged_at set, and at its commit stores that
\* status and merged_at and changes nothing else: not the PR's name, author
\* or created_at, no reviewer row, no other PR, no user, no team.
C16_MergeChangesStatusOnly ==
    [][\A p \in Procs :
        /\ (proc[p].pc = "m_update" /\ proc'[p].pc = "m_commit")
            => /\ proc[p].pr.Status = OPEN
               /\ proc'[p].ret.Status = MERGED
               /\ Len(proc'[p].ret.MergedAt) = 1
               /\ proc'[p].ret.AssignedReviewers =
                    OrderBySlot(Slots(pr_reviewers, proc[p].prID))
               /\ pull_requests' = pull_requests /\ pr_reviewers' = pr_reviewers
        /\ (proc[p].pc = "m_commit" /\ proc'[p].pc = "done")
            => LET id == proc[p].prID
                   old == pull_requests[id]
                   new == pull_requests'[id]
               IN  /\ proc'[p].err = NoErr /\ proc'[p].ret = proc[p].ret
                   /\ new.status = MERGED
                   /\ new.merged_at = proc[p].ret.MergedAt
                   /\ old.merged_at # <<>> => new.merged_at = old.merged_at
                   /\ new.pull_request_name = old.pull_request_name
                   /\ new.author_id = old.author_id
                   /\ new.created_at = old.created_at
                   /\ proc[p].ret.PullRequestName = old.pull_request_name
                   /\ proc[p].ret.AuthorId = old.author_id
                   /\ proc[p].ret.CreatedAt = <<old.created_at>>
                   /\ DOMAIN pull_requests' = DOMAIN pull_requests
                   /\ \A other \in DOMAIN pull_requests \ {id} :
                        pull_requests'[other] = pull_requests[other]
                   /\ pr_reviewers' = pr_reviewers
                   /\ users' = users /\ teams' = teams]_vars

\* A merge of an OPEN PR with two reviewers has returned it MERGED; the
\* other PR is still OPEN.
C16_Witness ==
    \E p \in Procs :
        /\ Done(p, "MergePullRequest")
        /\ proc[p].pr.Status = OPEN
        /\ proc[p].ret.Status = MERGED
        /\ Len(proc[p].ret.AssignedReviewers) = 2
        /\ pull_requests[proc[p].prID].status = MERGED
        /\ \E other \in DOMAIN pull_requests \ {proc[p].prID} :
            pull_requests[other].status = OPEN

\* C17: SetUserActive of a user changes that user's is_active and nothing
\* else: no other user, no username or team of anybody, no team, no PR and
\* no reviewer row; for an id that is no user it ends with NOT_FOUND and
\* changes nothing.  (A SetUserActive that has to wait for the user's row
\* writes nothing until it ends.)
C17_SetUserActiveChangesFlagOnly ==
    [][\A p \in Procs :
        (proc'[p].op = "SetUserActive" /\ (Starts(p) \/ Ends(p)))
        => LET u == proc'[p].userID
           IN  /\ proc'[p].pc # "done" => users' = users
               /\ pr_reviewers' = pr_reviewers
               /\ pull_requests' = pull_requests
               /\ teams' = teams
               /\ DOMAIN users' = DOMAIN users
               /\ \A v \in DOMAIN users \ {u} : users'[v] = users[v]
               /\ IF u \in DOMAIN users
                  THEN /\ proc'[p].err = NoErr
                       /\ proc'[p].pc = "done"
                          => users'[u] = [users[u] EXCEPT !.is_active = proc'[p].flag]
                  ELSE /\ proc'[p].err = NOTFOUND
                       /\ proc'[p].pc = "done"
                       /\ users' = users]_vars

\* A user who reviews a PR was set inactive and still holds the slot, and
\* a team-mate is still active.
C17_Witness ==
    \E p \in Procs :
        /\ Done(p, "SetUserActive")
        /\ proc[p].err = NoErr
        /\ ~proc[p].flag
        /\ ~users[proc[p].userID].is_active
        /\ \E r \in pr_reviewers : r.reviewer_id = proc[p].userID
        /\ \E v \in DOMAIN users \ {proc[p].userID} :
            users[v].team_name = users[proc[p].userID].team_name /\ users[v].is_active

\* C20: a CreateTeam that starts when a team of its name exists ends with
\* TEAM_EXISTS and changes no table: every user keeps username, team and
\* is_active.
C20_ExistingTeamUnchanged ==
    [][\A p \in Procs :
        (Starts(p) /\ proc'[p].op = "CreateTeam" /\ proc'[p].team \in teams)
        => /\ proc'[p].pc = "done"
           /\ proc'[p].err = TEAMEXISTS
           /\ users' = users
           /\ teams' = teams
           /\ pull_requests' = pull_requests
           /\ pr_reviewers' = pr_reviewers]_vars

\* The team-add of "backend" was repeated after two of its users were
\* moved to "pair": it ended with TEAM_EXISTS, and the two are still in
\* "pair" under their new username.
C20_Witness ==
    \E p \in Procs :
        /\ Done(p, "CreateTeam")
        /\ proc[p].err = TEAMEXISTS
        /\ proc[p].team = "backend"
        /\ "u3" \in proc[p].users
        /\ users["u3"].team_name = "pair"
        /\ users["u3"].username = "Pair"

\* C18: a user who was inactive when a CreatePullRequest or ReassignReviewer
\* started and has not been made active since (SetUserActive(u, true) or a
\* team-add upserting u as active) is inactive now, and no reviewer row the
\* request writes names that user; every reviewer row that appears is
\* written by the slot write of such a request.
C18_InactiveNeverAssigned ==
    [][/\ \A p \in Procs : Busy(p) => \A u \in proc[p].barred : ~users[u].is_active
       /\ \A r \in pr_reviewers' \ pr_reviewers :
            \E p \in Procs :
                /\ proc[p].pc \in {"c_commit", "r_replace"}
                /\ proc'[p].pc # proc[p].pc
                /\ r.pr_id = proc[p].prID
                /\ r.reviewer_id \notin proc[p].barred]_vars

\* A CreatePullRequest that started after u4 of the author's team had been
\* set inactive has assigned the two other team-mates; the team had three
\* members besides the author.
C18_Witness ==
    \E p \in Procs :
        /\ Done(p, "CreatePullRequest")
        /\ proc[p].err = NoErr
        /\ "u4" \in proc[p].barred
        /\ users["u4"].team_name = proc[p].team
        /\ Cardinality({u \in DOMAIN users : users[u].team_name = proc[p].team}) = 4
        /\ Len(proc[p].ret.AssignedReviewers) = 2
        /\ \E r \in pr_reviewers : r.pr_id = proc[p].prID

\* C19: ListUserReviewPRs(u) returns, without an error and without a write,
\* one entry for every PR, OPEN or MERGED, in which u holds a reviewer slot
\* and no other entry, each with the PR's stored name, author and status, in
\* ascending order of created_at; for a user without a slot, known or not,
\* that is the empty list.
C19_ListIsExactAndOrdered ==
    [][\A p \in Procs :
        (Starts(p) /\ proc'[p].op = "ListUserReviewPRs")
        => LET l == proc'[p].list
               held == {id \in DOMAIN pull_requests :
                          \E r \in pr_reviewers :
                             r.pr_id = id /\ r.reviewer_id = proc'[p].userID}
           IN  /\ proc'[p].pc = "done" /\ proc'[p].err = NoErr
               /\ {l[i].PullRequestId : i \in 1..Len(l)} = held
               /\ Len(l) = Cardinality(held)
               /\ \A i \in 1..Len(l) :
                    l[i] = PullRequestShort(pull_requests, l[i].PullRequestId)
               /\ \A i, j \in 1..Len(l) :
                    i < j => pull_requests[l[i].PullRequestId].created_at
                                <= pull_requests[l[j].PullRequestId].created_at
               /\ UNCHANGED <<teams, users, pull_requests, pr_reviewers>>]_vars

\* The list of a reviewer of two PRs was returned: the older PR, OPEN,
\* before the newer one, MERGED.
C19_Witness ==
    \E p \in Procs :
        /\ Done(p, "ListUserReviewPRs")
        /\ Len(proc[p].list) = 2
        /\ proc[p].list[1].Status = OPEN
        /\ proc[p].list[2].Status = MERGED
        /\ pull_requests[proc[p].list[1].PullRequestId].created_at
                < pull_requests[proc[p].list[2].PullRequestId].created_at

\* C21: every request that has started ends, whatever the others do, also
\* two team-adds that upsert the same users in opposite order: as only
\* finitely many requests start, from some moment on no handler is busy.
C21_EveryRequestReturns == <>[](\A p \in Procs : ~Busy(p))

\* Two team-adds ran together and took each other's next user: one was
\* aborted by the deadlock detector, the other then committed its team.
C21_Witness ==
    \E p, q \in Procs :
        /\ Done(p, "CreateTeam") /\ proc[p].err = RawUpsertDeadlock
        /\ Done(q, "CreateTeam") /\ proc[q].err = NoErr
        /\ proc[p].upserted > 0
        /\ proc[q].team \in teams
        /\ proc[p].team \notin teams

\* C30: of two CreateTeam requests of one new team name that were served
\* together, the one that did not create the team ended with TEAM_EXISTS
\* (a team-add aborted by the deadlock detector lost to a team of another
\* name and is not meant).
C30_ConcurrentTeamAddLoserTeamExists ==
    \A p, q \in Procs :
        (/\ p # q
         /\ Done(p, "CreateTeam") /\ Done(q, "CreateTeam")
         /\ proc[p].team = proc[q].team
         /\ proc[p].err = NoErr
         /\ proc[q].err # RawUpsertDeadlock)
        => proc[q].err = TEAMEXISTS

\* C22 as stated: the status of every error a request ended with is 404 for
\* NOT_FOUND, 400 for TEAM_EXISTS, 409 for PR_MERGED, NOT_ASSIGNED and
\* NO_CANDIDATE, and 500 for every other error.
C22_OnlyThreeKindsConflict ==
    \A p \in Procs :
        (proc[p].pc = "done" /\ proc[p].err # NoErr)
        => writeServiceError(proc[p].err) =
              CASE proc[p].err = NOTFOUND -> 404
                [] proc[p].err = TEAMEXISTS -> 400
                [] proc[p].err \in {PRMERGED, NOTASSIGNED, NOCANDIDATE} -> 409
                [] OTHER -> 500

\* C22, amended: the status of every error a request ended with is 404 for
\* NOT_FOUND, 400 for TEAM_EXISTS, 409 for PR_EXISTS, PR_MERGED,
\* NOT_ASSIGNED and NO_CANDIDATE, and 500 for every other error.
C22_StatusOfEveryError ==
    \A p \in Procs :
        (proc[p].pc = "done" /\ proc[p].err # NoErr)
        => writeServiceError(proc[p].err) =
              CASE proc[p].err = NOTFOUND -> 404
                [] proc[p].err = TEAMEXISTS -> 400
                [] proc[p].err \in {PREXISTS, PRMERGED, NOTASSIGNED, NOCANDIDATE} -> 409
                [] OTHER -> 500

\* One request ended with PR_EXISTS, answered 409, while another ended with
\* an error that is no service error, answered 500.
C22_Witness ==
    \E p, q \in Procs :
        /\ Done(p, "CreatePullRequest") /\ proc[p].err = PREXISTS
        /\ writeServiceError(proc[p].err) = 409
        /\ proc[q].pc = "done" /\ proc[q].err \notin ServiceCodes \cup {NoErr}
        /\ writeServiceError(proc[q].err) = 500

\* C23: no reviewer row of a PR names the PR's author.
C23_AuthorNeverReviews ==
    \A r \in pr_reviewers :
        r.pr_id \in DOMAIN pull_requests
        => r.reviewer_id # pull_requests[r.pr_id].author_id

\* A reassignment has replaced a reviewer by a team-mate while the author of
\* the PR was among the active users of the team it chose from.
C23_Witness ==
    \E p \in Procs :
        /\ Done(p, "ReassignReviewer")
        /\ proc[p].err = NoErr
        /\ proc[p].pr.AuthorId \in proc[p].users
        /\ \E r \in Slots(pr_reviewers, proc[p].prID) : r.reviewer_id = proc[p].newID

\* C24: the reviewer rows of a PR are at most 2, their slots are 1..n, no
\* two rows have the same slot and no two rows the same reviewer.
C24_SlotsWellFormed ==
    \A id \in PRIds :
        LET rows == Slots(pr_reviewers, id)
        IN  /\ Cardinality(rows) <= 2
            /\ {r.slot : r \in rows} = 1..Cardinality(rows)
            /\ \A r1, r2 \in rows :
                  (r1.slot = r2.slot \/ r1.reviewer_id = r2.reviewer_id) => r1 = r2

\* A PR was created with two reviewers out of three candidates, and one of
\* its slots has been reassigned since.
C24_Witness ==
    \E p \in Procs, id \in DOMAIN pull_requests :
        /\ Done(p, "ReassignReviewer") /\ proc[p].err = NoErr /\ proc[p].prID = id
        /\ Cardinality(Slots(pr_reviewers, id)) = 2
        /\ Cardinality(proc[p].users \ {pull_requests[id].author_id}) = 3

\* C25: a MERGED PR stays MERGED and keeps its merged_at, which is set
\* exactly when the status is MERGED; a MergePullRequest that found the PR
\* OPEN ends without error, also when another merge of the PR committed
\* meanwhile, and returns the merged_at that is stored, which is the one
\* stored before if there was one.
C25_MergedOnceForGood ==
    [][/\ \A id \in DOMAIN pull_requests :
            /\ id \in DOMAIN pull_requests'
            /\ pull_requests[id].status = MERGED => pull_requests'[id].status = MERGED
            /\ pull_requests[id].merged_at # <<>>
                  => pull_requests'[id].merged_at = pull_requests[id].merged_at
            /\ (pull_requests'[id].status = MERGED) = (pull_requests'[id].merged_at # <<>>)
       /\ \A p \in Procs :
            (proc[p].op = "MergePullRequest" /\ Busy(p) /\ Ends(p))
            => /\ proc'[p].err = NoErr
               /\ proc'[p].ret.Status = MERGED
               /\ proc'[p].ret.MergedAt = pull_requests'[proc[p].prID].merged_at]_vars

\* Two merges of one PR both found it OPEN; both have ended without error
\* and returned the same merged_at, the stored one.
C25_Witness ==
    \E p, q \in Procs :
        /\ p # q
        /\ Done(p, "MergePullRequest") /\ Done(q, "MergePullRequest")
        /\ proc[p].prID = proc[q].prID
        /\ proc[p].pr.Status = OPEN /\ proc[q].pr.Status = OPEN
        /\ proc[p].err = NoErr /\ proc[q].err = NoErr
        /\ proc[p].ret.MergedAt = proc[q].ret.MergedAt
        /\ pull_requests[proc[p].prID].merged_at = proc[p].ret.MergedAt
        /\ clock > pull_requests[proc[p].prID].merged_at[1]

\* C26: a PR that exists keeps its id, name, author and created_at and the
\* set of its slots: no step adds a reviewer row to it or removes one.
C26_SlotsAndIdentityFixed ==
    [][\A id \in DOMAIN pull_requests :
        /\ id \in DOMAIN pull_requests'
        /\ pull_requests'[id].pull_request_name = pull_requests[id].pull_request_name
        /\ pull_requests'[id].author_id = pull_requests[id].author_id
        /\ pull_requests'[id].created_at = pull_requests[id].created_at
        /\ {r.slot : r \in Slots(pr_reviewers', id)} = {r.slot : r \in Slots(pr_reviewers, id)}
        /\ Cardinality(Slots(pr_reviewers', id)) = Cardinality(Slots(pr_reviewers, id))]_vars

\* A PR has a single reviewer although its author now has two or more
\* active team-mates besides that reviewer's: the team grew after the PR
\* was created.
C26_Witness ==
    \E id \in DOMAIN pull_requests :
        LET a == pull_requests[id].author_id
        IN  /\ Cardinality(Slots(pr_reviewers, id)) = 1
            /\ a \in DOMAIN users
            /\ Cardinality({u \in DOMAIN users \ {a} :
                               users[u].team_name = users[a].team_name
                               /\ users[u].is_active}) >= 2

\* The slot write of ReassignReviewer request p went through.
Wrote(p) ==
    /\ proc[p].op = "ReassignReviewer"
    /\ \/ proc[p].pc = "r_reload"
       \/ proc[p].pc = "done" /\ proc[p].err \in {NoErr, RawBeginTx}

\* C27: of two ReassignReviewer requests for different reviewers of one PR
\* that read the PR with no write to it in between (seen) and selected the
\* same replacement, at most one writes its slot; the other, once it has
\* returned, has returned an error and its oldUserID still holds its slot;
\* the replacement holds one slot.
C27_SameReplacementOneSlot ==
    \A p, q \in Procs :
        (/\ p # q
         /\ proc[q].op = "ReassignReviewer"
         /\ proc[p].prID = proc[q].prID
         /\ proc[p].userID # proc[q].userID
         /\ proc[p].seen = proc[q].seen
         /\ proc[p].newID # "" /\ proc[p].newID = proc[q].newID
         /\ Wrote(p))
        => /\ ~Wrote(q)
           /\ proc[q].pc = "done"
                => /\ proc[q].err # NoErr
                   /\ \E r \in Slots(pr_reviewers, proc[q].prID) :
                         r.reviewer_id = proc[q].userID
           /\ Cardinality({r \in Slots(pr_reviewers, proc[p].prID) :
                              r.reviewer_id = proc[p].newID}) <= 1

\* Both requests read the PR with both old reviewers in their slots and
\* selected the same user; one replaced its reviewer, the write of the other
\* was rejected by UNIQUE (pr_id, reviewer_id) and its reviewer is still there.
C27_Witness ==
    \E p, q \in Procs :
        /\ p # q
        /\ Done(p, "ReassignReviewer") /\ Done(q, "ReassignReviewer")
        /\ proc[p].prID = proc[q].prID
        /\ proc[p].userID # proc[q].userID
        /\ proc[p].pr.AssignedReviewers = proc[q].pr.AssignedReviewers
        /\ proc[p].seen = proc[q].seen
        /\ proc[p].newID = proc[q].newID
        /\ proc[p].err = NoErr
        /\ proc[q].err = RawReviewerUnique
        /\ \E r \in Slots(pr_reviewers, proc[q].prID) : r.reviewer_id = proc[q].userID

\* C28 as stated: when CreatePullRequest runs its INSERTs or ReassignReviewer
\* its UPDATE, every user the statement writes into a slot is active.
C28_ActiveWhenWritten ==
    [][\A p \in Procs :
        /\ (proc[p].pc = "c_insert" /\ proc'[p].pc = "c_commit")
            => \A u \in Range(proc[p].reviewers) : users[u].is_active
        /\ (proc[p].pc = "r_replace" /\ proc'[p].pc = "r_reload")
            => users[proc[p].newID].is_active]_vars

\* C28, amended: every user a CreatePullRequest or ReassignReviewer selects
\* is an active member of the team at the moment the request lists the
\* team's active users, and the users the request then writes into slots
\* are the selected ones.
C28_ActiveWhenListed ==
    [][\A p \in Procs :
        LET active == {u \in DOMAIN users :
                          users[u].team_name = proc[p].team /\ users[u].is_active}
        IN  /\ (proc[p].pc = "c_list" /\ proc'[p].pc = "c_insert")
                => Range(proc'[p].reviewers) \subseteq active
            /\ (proc[p].pc = "r_list" /\ proc'[p].pc = "r_replace")
                => proc'[p].newID \in active
            /\ (proc[p].pc = "c_commit" /\ proc'[p].pc = "done")
                => pr_reviewers' \ pr_reviewers
                     \subseteq ReviewerRows(proc[p].prID, proc[p].reviewers)
            /\ (proc[p].pc = "r_replace" /\ proc'[p].pc = "r_reload")
                => \A r \in pr_reviewers' \ pr_reviewers :
                      r.reviewer_id = proc[p].newID]_vars

\* A ReassignReviewer selected a user who has been set inactive since, and
\* its UPDATE is about to replace the old reviewer by that user.
C28_Witness ==
    \E p \in Procs :
        /\ proc[p].pc = "r_replace"
        /\ proc[p].newID \in proc[p].users
        /\ ~users[proc[p].newID].is_active
        /\ ReplaceReviewer(pull_requests, pr_reviewers, proc[p].prID,
                           proc[p].userID, proc[p].newID).err = NoErr

\* C29: a ReassignReviewer that ends with an error has written nothing: the
\* step that ends it changes no table, and its UPDATE of the slot has not
\* gone through before (the request is not past ReplaceReviewer).
C29_ErrorMeansNoChange ==
    [][\A p \in Procs :
        (proc'[p].op = "ReassignReviewer" /\ Ends(p) /\ proc'[p].err # NoErr)
        => /\ proc[p].pc # "r_reload"
           /\ UNCHANGED <<teams, users, pull_requests, pr_reviewers>>]_vars

\* C31: every user's team_name is a team that exists; the step that ends a
\* CreateTeam without error adds the team, leaves every user it names with
\* the team, username and is_active of the request, whatever team the user
\* was in, leaves every other user as stored, and changes no reviewer row
\* and no PR.
C31_MembersMoveToNewTeam ==
    [][/\ \A u \in DOMAIN users' : users'[u].team_name \in teams'
       /\ \A p \in Procs :
            (proc'[p].op = "CreateTeam" /\ Ends(p) /\ proc'[p].err = NoErr)
            => /\ teams' = teams \cup {proc'[p].team}
               /\ DOMAIN users' = DOMAIN users \cup DOMAIN proc'[p].members
               /\ \A u \in DOMAIN proc'[p].members :
                     users'[u] = [username |-> proc'[p].members[u].username,
                                  team_name |-> proc'[p].team,
                                  is_active |-> proc'[p].members[u].is_active]
               /\ \A u \in DOMAIN users \ DOMAIN proc'[p].members : users'[u] = users[u]
               /\ pr_reviewers' = pr_reviewers
               /\ pull_requests' = pull_requests]_vars

\* The team-add of "pair" has moved u3 and u4 out of "backend", where u1
\* and u2 remain, while u3 still holds the slot of the PR it reviewed.
C31_Witness ==
    \E p \in Procs :
        /\ Done(p, "CreateTeam") /\ proc[p].err = NoErr /\ proc[p].team = "pair"
        /\ users["u3"].team_name = "pair" /\ users["u3"].username = "Pair"
        /\ "backend" \in teams
        /\ users["u2"].team_name = "backend" /\ users["u2"].username = "Dev"
        /\ \E r \in pr_reviewers : r.reviewer_id = "u3"

\* C32: a stored PR has a merged_at exactly when its status is MERGED, and
\* the PR a successful CreatePullRequest returns is OPEN without merged_at.
C32_MergedAtIffMerged ==
    /\ \A id \in DOMAIN pull_requests :
          /\ pull_requests[id].status \in {OPEN, MERGED}
          /\ (pull_requests[id].merged_at # <<>>) <=> (pull_requests[id].status = MERGED)
    /\ \A p \in Procs :
          (Done(p, "CreatePullRequest") /\ proc[p].err = NoErr)
          => proc[p].ret.Status = OPEN /\ proc[p].ret.MergedAt = <<>>

\* A PR created by a request was merged later, and the other PR is OPEN
\* without merged_at.
C32_Witness ==
    \E id \in DOMAIN pull_requests, other \in DOMAIN pull_requests :
        /\ pull_requests[id].status = MERGED
        /\ Len(pull_requests[id].merged_at) = 1
        /\ pull_requests[id].merged_at[1] > pull_requests[id].created_at
        /\ writes[id] = 1
        /\ pull_requests[other].status = OPEN
        /\ pull_requests[other].merged_at = <<>>

\* C33: when a CreatePullRequest is about to select from a pool of at most
\* 2 candidates, the possible selections from the pool as listed are all
\* the orders of the pool, not only the listed one.
C33_SmallPoolIsPermuted ==
    \A p \in Procs :
        proc[p].pc = "c_list"
        => \A list \in RowOrders(ListActiveUsersInTeam(users, proc[p].team)) :
              LET candidates == CreateCandidates(list, proc[p].userID)
              IN  Len(candidates) <= 2
                  => pickRandom(candidates, 2) = RowOrders(Range(candidates))

====
